---- MODULE Spec2Model ----
(***************************************************************************)
(* GitFlow-CMS: the SmartEditor component (frontend/src/components/        *)
(* SmartEditor.tsx), the API client it calls (frontend/src/lib/api.ts) and *)
(* the storage backend behind it.  One editor is one mounted SmartEditor.  *)
(* Every await of a handler is a point where other handlers may run, so a  *)
(* handler is one action per segment between awaits: the segment that      *)
(* issues a call, and the segment that receives its response.            *)
(***************************************************************************)
EXTENDS Integers, Sequences, FiniteSets, TLC

(***************************************************************************)
(* Bounds of the model.                                                    *)
(***************************************************************************)
\* Writes the backend accepts in one run, over all files and writers.
MaxWrites == 2
\* Files the user selects in one editor after the one it was mounted on.
MaxSelects == 1
\* Largest secrets_found a scan response reports.
MaxSecrets == 1

(***************************************************************************)
(* Values.                                                                 *)
(***************************************************************************)
\* JavaScript null / undefined.
Null == "<null>"
\* Editor texts; "" is the initial value of the content state.
Contents == {"", "x"}
\* Files of the repository: two text files, no binary file.
TextPaths == {"a.py", "b.py"}
\* The file other clients of the repository write as well.
OtherPaths == {"a.py"}
BinaryPaths == {}
Paths == TextPaths \cup BinaryPaths
\* The repository the dashboard shows (`${owner}/${repo}`).
RepoFullName == "o/r"

\* The initial value of the sha state: the empty string.
EmptySha == <<>>
\* The fingerprint the backend gives version n of the file at path p.
Fingerprint(p, n) == <<p, n>>

(***************************************************************************)
(* Texts of error messages, as sequences of characters, so that            *)
(* String.prototype.includes is a real substring search.                   *)
(***************************************************************************)
TxtEmpty == <<>>
TxtConflict == <<"C","o","n","f","l","i","c","t">>
Txt409 == <<"4","0","9">>
TxtStale == <<"s","h","a"," ","m","o","v","e","d">>
TxtConflictDetail == <<"C","o","n","f","l","i","c","t",":"," ","s","h","a">>
TxtPort4096 == <<"p","o","r","t"," ","4","0","9","6">>
TxtFailedToFetch == <<"F","a","i","l","e","d"," ","t","o"," ","f","e","t","c","h">>
TxtRequestFailed == <<"R","e","q","u","e","s","t"," ","f","a","i","l","e","d">>
TxtUnknownError == <<"U","n","k","n","o","w","n"," ","e","r","r","o","r">>

\* String.prototype.includes.
Includes(str, sub) ==
    \E i \in 1..(Len(str) - Len(sub) + 1) : SubSeq(str, i, i + Len(sub) - 1) = sub

\* JavaScript a || b on strings held as character sequences.
OrText(a, b) == IF a # TxtEmpty THEN a ELSE b

(***************************************************************************)
(* HTTP responses and ApiClient.request.                                   *)
(***************************************************************************)
\* The JSON body of a response with an error status: its detail and error
\* fields (TxtEmpty when absent), or a body that is not JSON.
ErrorBodies ==
    { [json |-> TRUE,  detail |-> TxtStale,          error |-> TxtEmpty],
      [json |-> TRUE,  detail |-> TxtConflictDetail, error |-> TxtEmpty],
      [json |-> TRUE,  detail |-> TxtEmpty,          error |-> TxtPort4096],
      [json |-> FALSE, detail |-> TxtEmpty,          error |-> TxtEmpty] }

NoErrorBody == [json |-> TRUE, detail |-> TxtEmpty, error |-> TxtEmpty]

\* A response with a success status and the JSON value `body`.
HttpOk(body) ==
    [kind |-> "http", status |-> 200, body |-> body, err |-> NoErrorBody,
     message |-> TxtEmpty]

\* A response with an error status; `blank` fills the unused body field.
HttpError(status, err, blank) ==
    [kind |-> "http", status |-> status, body |-> blank, err |-> err,
     message |-> TxtEmpty]

\* fetch itself rejecting with an Error whose message is `message`.
NetworkError(message, blank) ==
    [kind |-> "network", status |-> 0, body |-> blank, err |-> NoErrorBody,
     message |-> message]

\* A failure of the service or of the transport.
ServiceFailures(blank) ==
    { HttpError(500, b, blank) : b \in ErrorBodies }
        \cup { NetworkError(TxtFailedToFetch, blank) }

\* response.json().catch(() => ({ error: "Unknown error" })), then
\* error.detail || error.error || "Request failed".
ApiErrorMessage(body) ==
    LET error == IF body.json THEN body
                 ELSE [json |-> TRUE, detail |-> TxtEmpty, error |-> TxtUnknownError]
    IN  OrText(error.detail, OrText(error.error, TxtRequestFailed))

\* ApiClient.request: the value of the call, or the error it throws, of
\* which the handlers read the message only.
request(resp) ==
    IF resp.kind = "network"
    THEN [ok |-> FALSE, value |-> resp.body, status |-> 0, message |-> resp.message]
    ELSE IF resp.status >= 200 /\ resp.status <= 299
    THEN [ok |-> TRUE, value |-> resp.body, status |-> resp.status,
          message |-> TxtEmpty]
    ELSE [ok |-> FALSE, value |-> resp.body, status |-> resp.status,
          message |-> ApiErrorMessage(resp.err)]

(***************************************************************************)
(* utils: storage and getBackupKey.                                        *)
(***************************************************************************)
\* `gitflow_backup_${repo}_${path.replace(/\//g, "_")}`; the paths of the
\* model hold no "/".
getBackupKey(repo, path) == <<"gitflow_backup", repo, path>>

BackupKeys == { getBackupKey(RepoFullName, p) : p \in Paths }

\* localStorage holds no item (<<>>) or the JSON of a value (<<v>>).
NoItem == <<>>

\* storage.get: item ? JSON.parse(item) : defaultValue.
storageGet(store, key, defaultValue) ==
    IF store[key] = NoItem THEN defaultValue ELSE store[key][1]

\* storage.set: localStorage.setItem(key, JSON.stringify(value)).
storageSet(store, key, value) == [store EXCEPT ![key] = <<value>>]

\* storage.remove: localStorage.removeItem(key).
storageRemove(store, key) == [store EXCEPT ![key] = NoItem]

\* JavaScript truthiness of a string | null.
Truthy(v) == v # Null /\ v # ""

(***************************************************************************)
(* State.                                                                  *)
(***************************************************************************)
VARIABLES
    \* The storage backend: per path, the stored content and its version.
    backend,
    \* The filePath prop of each editor (DashboardPage's selectedFile).
    filePath,
    \* The React state of each editor.
    content, originalContent, sha,
    isLoading, isSaving, hasUnsavedChanges, isBinary, hasLocalBackup,
    \* getFileContent calls in flight, by the path they ask for.
    loads,
    \* Where handleSafePush stands: "idle", or the call it awaits.
    pc,
    \* What the running handleSafePush closed over when it was started.
    closure,
    \* The toast with id "push".
    toast,
    \* localStorage of the editor's browser, by backup key.
    localStorage,
    \* The pending timeout of the debounced saveToLocalStorage of each backup
    \* key: the value it will store, or Null.
    timeout,
    \* History: the calls the latest handleSafePush issued, in order.
    calls,
    \* History: how often each editor's file was changed by handleFileSelect.
    selects,
    \* History: the path the editor's latest Committed push wrote, until the
    \* editor loads a file or someone else writes that path; else Null.
    committed

VARIABLES
    \* The Smart-Replace engine at work on one request: the file text, the
    \* constructs the locator found in it and the classified fragment,
    original_text, file_constructs, fragment,
    \* the plan of the Replacement Planner and the result of the Patch Applier.
    planned, patched

VARIABLES
    \* The Magic Paste state of each editor.
    showMagicPaste, magicPasteCode, magicPasteResult, isProcessingMagic,
    \* The smartReplace request handleMagicPaste awaits, if any.
    smartReplaceCall,
    \* The latest toast of Magic Paste.
    magicToast,
    \* History: the request whose response magicPasteResult holds.
    resultRequest

VARIABLES
    \* A request at the middleware: req.nextUrl.pathname, whether req.auth
    \* holds a session, and the response once the middleware has run.
    pathname, isLoggedIn, response

VARIABLES
    \* The time in milliseconds since the editor was mounted.
    now,
    \* When the pending timeout of each backup key runs.
    due,
    \* History: since when the backup lags behind the content the user has
    \* typed; None once the content has been written to the backup.
    unsavedSince

VARIABLES
    \* DashboardPage: the ref editorContentRef, the tab shown on small
    \* screens, the system clipboard and the latest toast of the page.
    editorContentRef, currentTab, clipboard, dashToast,
    \* The React state of AIChat.
    messages, input, chatIsLoading, isConfigured,
    \* The getAiStatus call of the mount effect and the chat call sendMessage
    \* awaits, if any.
    statusCall, chatCall

VARIABLES
    \* History: the backup key whose backup the latest Committed push of the
    \* editor removed, until the user changes the content; else None.
    clearedBackup

editorVars == <<content, originalContent, sha, isLoading, hasUnsavedChanges,
                isBinary, hasLocalBackup>>
pushVars == <<isSaving, pc, closure, toast, calls>>
editingVars == <<backend, filePath, content, originalContent, sha, isLoading, isSaving,
                 hasUnsavedChanges, isBinary, hasLocalBackup, loads, pc, closure, toast,
                 localStorage, timeout, calls, selects, committed>>
engineVars == <<original_text, file_constructs, fragment, planned, patched>>
magicVars == <<showMagicPaste, magicPasteCode, magicPasteResult, isProcessingMagic,
               smartReplaceCall, magicToast, resultRequest>>
middlewareVars == <<pathname, isLoggedIn, response>>
clockVars == <<now, due, unsavedSince>>
dashboardVars == <<editorContentRef, currentTab, clipboard, dashToast>>
chatVars == <<messages, input, chatIsLoading, isConfigured, statusCall, chatCall>>
backupVars == <<clearedBackup>>
vars == <<editingVars, engineVars, magicVars, middlewareVars, clockVars,
          dashboardVars, chatVars, backupVars>>

\* What a specification without editors leaves alone, and one without the
\* engine.
besideEditing ==
    <<engineVars, magicVars, middlewareVars, clockVars, dashboardVars, chatVars, backupVars>>
besideEngine ==
    <<editingVars, magicVars, middlewareVars, clockVars, dashboardVars, chatVars, backupVars>>
besideMagic ==
    <<engineVars, middlewareVars, clockVars, dashboardVars, chatVars, backupVars>>
besideMiddleware ==
    <<editingVars, engineVars, magicVars, clockVars, dashboardVars, chatVars, backupVars>>
besideTimed ==
    <<engineVars, magicVars, middlewareVars, dashboardVars, chatVars, backupVars>>
besideChat ==
    <<engineVars, magicVars, middlewareVars, clockVars, backupVars>>
besideBackup ==
    <<engineVars, magicVars, middlewareVars, clockVars, dashboardVars, chatVars>>

\* Option values: None is <<>>, Some(v) is <<v>>.
None == <<>>
Some(v) == <<v>>

\* The engine with no request at hand.
NoFragment == [raw_text |-> <<>>, declared_name |-> None, kind |-> None]
EngineIdle ==
    /\ original_text = <<>>
    /\ file_constructs = <<>>
    /\ fragment = NoFragment
    /\ planned = None
    /\ patched = None

\* No Committed push has removed a backup.
InitCleared == clearedBackup = [s \in DOMAIN pc |-> None]

\* DashboardPage and AIChat just mounted: the useRef and useState initial
\* values, and the mount effect of AIChat has called getAiStatus.
InitDashboard ==
    /\ editorContentRef = ""
    /\ currentTab = "editor"
    /\ clipboard = <<>>
    /\ dashToast = "none"
    /\ messages = <<>>
    /\ input = <<>>
    /\ chatIsLoading = FALSE
    /\ isConfigured = None
    /\ statusCall = TRUE
    /\ chatCall = None

\* The clock of a specification that does not measure time.
ClockIdle ==
    /\ now = 0
    /\ due = [s \in DOMAIN pc |-> [k \in BackupKeys |-> 0]]
    /\ unsavedSince = [s \in DOMAIN pc |-> None]

\* No request at the middleware.
MiddlewareIdle ==
    /\ pathname = <<"/">>
    /\ isLoggedIn = FALSE
    /\ response = None

\* The editors that are mounted.
Editors == DOMAIN pc

\* Magic Paste of the mounted editors as useState initialises it.
InitMagic ==
    /\ showMagicPaste = [s \in Editors |-> FALSE]
    /\ magicPasteCode = [s \in Editors |-> <<>>]
    /\ magicPasteResult = [s \in Editors |-> None]
    /\ isProcessingMagic = [s \in Editors |-> FALSE]
    /\ smartReplaceCall = [s \in Editors |-> None]
    /\ magicToast = [s \in Editors |-> "none"]
    /\ resultRequest = [s \in Editors |-> None]

NoClosure == [content |-> "", sha |-> EmptySha, filePath |-> Null]

\* The editors of E, each a SmartEditor just mounted on the file at path p:
\* the useState initial values, and the effect has started loadFile.  The
\* browser may hold a backup of that file from an earlier visit.
InitEditors(E, p) ==
    /\ filePath = [s \in E |-> p]
    /\ content = [s \in E |-> ""]
    /\ originalContent = [s \in E |-> ""]
    /\ sha = [s \in E |-> EmptySha]
    /\ isLoading = [s \in E |-> TRUE]
    /\ isSaving = [s \in E |-> FALSE]
    /\ hasUnsavedChanges = [s \in E |-> FALSE]
    /\ isBinary = [s \in E |-> FALSE]
    /\ hasLocalBackup = [s \in E |-> FALSE]
    /\ loads = [s \in E |-> {p}]
    /\ pc = [s \in E |-> "idle"]
    /\ closure = [s \in E |-> NoClosure]
    /\ toast = [s \in E |-> "none"]
    /\ localStorage \in
         [E -> { [k \in BackupKeys |->
                    IF k = getBackupKey(RepoFullName, p) THEN item ELSE NoItem]
                 : item \in {NoItem} \cup { <<c>> : c \in Contents } }]
    /\ timeout = [s \in E |-> [k \in BackupKeys |-> Null]]
    /\ calls = [s \in E |-> <<>>]
    /\ selects = [s \in E |-> 0]
    /\ committed = [s \in E |-> Null]

\* The repository as the backend holds it at the start.
InitBackend ==
    backend = [p \in Paths |->
                 [content |-> IF p \in BinaryPaths THEN Null ELSE "x", ver |-> 1]]

Init ==
    /\ InitBackend
    /\ InitEditors({1}, "a.py")
    /\ InitMagic
    /\ EngineIdle
    /\ MiddlewareIdle
    /\ ClockIdle
    /\ InitDashboard
    /\ InitCleared

(***************************************************************************)
(* The storage backend.                                                    *)
(***************************************************************************)
\* The writes the backend has accepted so far.
RECURSIVE WritesOf(_)
WritesOf(ps) ==
    IF ps = {} THEN 0
    ELSE LET p == CHOOSE q \in ps : TRUE
         IN  (backend[p].ver - 1) + WritesOf(ps \ {p})

Writes == WritesOf(DOMAIN backend)

\* The fingerprint of the file now stored at path p.
CurrentSha(p) == Fingerprint(p, backend[p].ver)

\* GET /api/git/repos/{owner}/{repo}/file: FileContentResponse.
FileContentBody(p) ==
    [is_binary |-> p \in BinaryPaths, content |-> backend[p].content,
     sha |-> CurrentSha(p)]

BlankCommitBody == [success |-> FALSE, file_sha |-> EmptySha]

\* POST /api/git/commit, optimistic locking: the write is accepted only if
\* expected_sha is the current fingerprint of file_path.
CommitAccepted(req) == req.expected_sha = CurrentSha(req.file_path)

\* The backend after it accepted req.
BackendWrite(req) ==
    [backend EXCEPT ![req.file_path] =
        [content |-> req.content, ver |-> backend[req.file_path].ver + 1]]

\* The responses the backend may give to req, each with the backend after it.
CommitOutcomes(req) ==
    LET p == req.file_path
        accepted ==
            IF CommitAccepted(req) /\ Writes < MaxWrites
            THEN { [resp |-> HttpOk([success |-> TRUE,
                                     file_sha |-> Fingerprint(p, backend[p].ver + 1)]),
                    after |-> BackendWrite(req)] }
            ELSE {}
        mismatch ==
            IF ~CommitAccepted(req)
            THEN { [resp |-> HttpError(409, b, BlankCommitBody), after |-> backend]
                     : b \in ErrorBodies }
            ELSE {}
        refused == { [resp |-> HttpOk(BlankCommitBody), after |-> backend] }
        failed == { [resp |-> r, after |-> backend]
                      : r \in ServiceFailures(BlankCommitBody) }
    IN  accepted \cup mismatch \cup refused \cup failed

\* POST /api/security/scan: ScanResponse, or a failure.
BlankScanBody == [is_safe |-> FALSE, secrets_found |-> 0]
ScanResponses ==
    { HttpOk([is_safe |-> safe, secrets_found |-> n])
        : safe \in BOOLEAN, n \in 0..MaxSecrets }
        \cup ServiceFailures(BlankScanBody)

\* POST /api/smart/validate-syntax: SyntaxValidateResponse, or a failure.
BlankSyntaxBody == [is_valid |-> FALSE]
SyntaxResponses ==
    { HttpOk([is_valid |-> valid]) : valid \in BOOLEAN }
        \cup ServiceFailures(BlankSyntaxBody)

\* The responses to getFileContent for path p.
FileResponses(p) == { HttpOk(FileContentBody(p)) } \cup ServiceFailures(FileContentBody(p))

(***************************************************************************)
(* DashboardPage: selecting a file.                                        *)
(***************************************************************************)
\* handleFileSelect(path, false): setSelectedFile(path).  The filePath prop
\* of the mounted SmartEditor changes, loadFile is a new callback and the
\* effect calls it: setIsLoading(true), then getFileContent is awaited.
handleFileSelect(s, p) ==
    /\ p # filePath[s]
    /\ selects[s] < MaxSelects
    /\ selects' = [selects EXCEPT ![s] = @ + 1]
    /\ filePath' = [filePath EXCEPT ![s] = p]
    /\ isLoading' = [isLoading EXCEPT ![s] = TRUE]
    /\ loads' = [loads EXCEPT ![s] = @ \cup {p}]
    /\ UNCHANGED <<backend, content, originalContent, sha, hasUnsavedChanges,
                   isBinary, hasLocalBackup, pushVars, localStorage, timeout,
                   committed>>

(***************************************************************************)
(* SmartEditor.loadFile, from the response of getFileContent on.           *)
(***************************************************************************)
\* file.content || "".
OrEmpty(c) == IF Truthy(c) THEN c ELSE ""

\* backup && backup !== file.content.
BackupDiffers(backup, fileContent) == Truthy(backup) /\ backup # fileContent

loadFile(s, p, resp) ==
    LET r == request(resp)
        file == r.value
        backup == storageGet(localStorage[s], getBackupKey(RepoFullName, p), Null)
    IN  /\ p \in loads[s]
        /\ loads' = [loads EXCEPT ![s] = @ \ {p}]
        /\ isLoading' = [isLoading EXCEPT ![s] = FALSE]
        /\ IF r.ok /\ file.is_binary
           THEN /\ isBinary' = [isBinary EXCEPT ![s] = TRUE]
                /\ UNCHANGED <<content, originalContent, sha, hasUnsavedChanges,
                               hasLocalBackup, committed>>
           ELSE IF r.ok
           THEN /\ content' = [content EXCEPT ![s] = OrEmpty(file.content)]
                /\ originalContent' = [originalContent EXCEPT ![s] = OrEmpty(file.content)]
                /\ sha' = [sha EXCEPT ![s] = file.sha]
                /\ isBinary' = [isBinary EXCEPT ![s] = FALSE]
                /\ hasUnsavedChanges' = [hasUnsavedChanges EXCEPT ![s] = FALSE]
                /\ hasLocalBackup' = [hasLocalBackup EXCEPT ![s] =
                                        @ \/ BackupDiffers(backup, file.content)]
                /\ committed' = [committed EXCEPT ![s] = Null]
           ELSE UNCHANGED <<content, originalContent, sha, hasUnsavedChanges,
                            isBinary, hasLocalBackup, committed>>
        /\ UNCHANGED <<backend, filePath, selects, pushVars, localStorage, timeout>>

(***************************************************************************)
(* The editor is rendered only when the file is neither binary nor loading.*)
(***************************************************************************)
EditorShown(s) == ~isBinary[s] /\ ~isLoading[s]

backupKey(s) == getBackupKey(RepoFullName, filePath[s])

\* handleEditorChange(value): Monaco reports a change of the text.
handleEditorChange(s, value) ==
    /\ EditorShown(s)
    /\ value # content[s]
    /\ content' = [content EXCEPT ![s] = value]
    /\ hasUnsavedChanges' = [hasUnsavedChanges EXCEPT ![s] = (value # originalContent[s])]
    \* saveToLocalStorage(value): debounce clears the pending timeout and sets
    \* a new one.
    /\ timeout' = [timeout EXCEPT ![s][backupKey(s)] = value]
    /\ UNCHANGED <<backend, filePath, selects, originalContent, sha, isLoading, isBinary,
                   hasLocalBackup, loads, pushVars, localStorage, committed>>

\* The timeout debounce set runs: storage.set(backupKey, value).
debounceTimeout(s, key) ==
    /\ timeout[s][key] # Null
    /\ localStorage' = [localStorage EXCEPT ![s] = storageSet(@, key, timeout[s][key])]
    /\ timeout' = [timeout EXCEPT ![s][key] = Null]
    /\ UNCHANGED <<backend, filePath, selects, editorVars, loads, pushVars, committed>>

\* restoreBackup, the onClick of the Restore Backup button.
restoreBackup(s) ==
    LET backup == storageGet(localStorage[s], backupKey(s), Null)
    IN  /\ EditorShown(s)
        /\ hasLocalBackup[s]
        /\ Truthy(backup)
        /\ content' = [content EXCEPT ![s] = backup]
        /\ hasUnsavedChanges' = [hasUnsavedChanges EXCEPT ![s] = (backup # originalContent[s])]
        /\ hasLocalBackup' = [hasLocalBackup EXCEPT ![s] = FALSE]
        /\ UNCHANGED <<backend, filePath, selects, originalContent, sha, isLoading, isBinary,
                       loads, pushVars, localStorage, timeout, committed>>

(***************************************************************************)
(* SmartEditor.handleSafePush.                                             *)
(***************************************************************************)
\* What the handleSafePush of this render closes over.
Closure(s) == [content |-> content[s], sha |-> sha[s], filePath |-> filePath[s]]

\* api.scanSecrets(content, filePath)
ScanRequest(c) ==
    [kind |-> "scan", content |-> c.content, file_path |-> c.filePath,
     expected_sha |-> EmptySha]

\* api.validateSyntax(content, language, filePath)
SyntaxRequest(c) ==
    [kind |-> "validate", content |-> c.content, file_path |-> c.filePath,
     expected_sha |-> EmptySha]

\* A handler that commits the text now in the editor.
CommitRequestLive(s) ==
    [kind |-> "commit", content |-> content[s],
     file_path |-> closure[s].filePath, expected_sha |-> closure[s].sha]

\* api.commitFile({ file_path: filePath, content: content, expected_sha: sha })
\* as the running handler of editor s sends it.
CommitRequest(s) ==
    [kind |-> "commit", content |-> closure[s].content,
     file_path |-> closure[s].filePath, expected_sha |-> closure[s].sha]

\* A call as the history records it: the request, what came back ("pending"
\* until then) and, for a scan that blocked, the secrets_found the toast shows.
Call(req) ==
    [kind |-> req.kind, content |-> req.content, file_path |-> req.file_path,
     expected_sha |-> req.expected_sha, result |-> "pending", found |-> 0]

\* The call in flight.
LastCall(s) == calls[s][Len(calls[s])]

\* The history with the result of the latest call filled in.
Answered(log, result, found) ==
    [log EXCEPT ![Len(log)].result = result, ![Len(log)].found = found]

\* The history of an attempt that has ended drops the contents and paths it
\* sent.
Ended(log) == [i \in DOMAIN log |-> [log[i] EXCEPT !.content = "", !.file_path = Null]]

\* What a call returned, read off the response itself.
ScanResult(resp) ==
    IF ~request(resp).ok THEN "error"
    ELSE IF resp.body.is_safe THEN "safe" ELSE "unsafe"

\* `Found ${scanResult.secrets_found} potential secret(s)`
ScanFound(resp) ==
    IF request(resp).ok /\ ~resp.body.is_safe THEN resp.body.secrets_found ELSE 0

SyntaxResult(resp) ==
    IF ~request(resp).ok THEN "error"
    ELSE IF resp.body.is_valid THEN "valid" ELSE "invalid"

CommitResult(resp) ==
    IF resp.kind = "http" /\ resp.status = 409 THEN "mismatch"
    ELSE IF ~request(resp).ok THEN "error"
    ELSE IF resp.body.success THEN "accepted" ELSE "refused"

\* The Safe Push button: disabled={!hasUnsavedChanges || isSaving}.
SafePushEnabled(s) == EditorShown(s) /\ hasUnsavedChanges[s] /\ ~isSaving[s]

\* The click: setIsSaving(true), the loading toast, and scanSecrets(content,
\* filePath) is awaited.  The handler closes over the content, sha and
\* filePath of the render it was created in.
handleSafePush(s) ==
    /\ SafePushEnabled(s)
    /\ isSaving' = [isSaving EXCEPT ![s] = TRUE]
    /\ closure' = [closure EXCEPT ![s] = Closure(s)]
    /\ toast' = [toast EXCEPT ![s] = "scanning"]
    /\ pc' = [pc EXCEPT ![s] = "scanning"]
    /\ calls' = [calls EXCEPT ![s] = <<Call(ScanRequest(Closure(s)))>>]
    /\ UNCHANGED <<backend, filePath, selects, editorVars, loads, localStorage,
                   timeout, committed>>

\* A handler that trusts the count of the scan instead of its verdict.
ScanBlocksOnCount(scanResult) == scanResult.secrets_found > 0

\* if (!scanResult.is_safe)
ScanBlocks(scanResult) == ~scanResult.is_safe

\* if (!syntaxResult.is_valid)
SyntaxBlocks(syntaxResult) == ~syntaxResult.is_valid

\* The catch block: message.includes("Conflict") || message.includes("409").
PushErrorToast(message) ==
    IF Includes(message, TxtConflict) \/ Includes(message, Txt409)
    THEN "conflict"
    ELSE "failed"

\* A handler that clears the backup of its file whenever it ends.
PushEndsClearing(s, kind, log) ==
    /\ toast' = [toast EXCEPT ![s] = kind]
    /\ isSaving' = [isSaving EXCEPT ![s] = FALSE]
    /\ pc' = [pc EXCEPT ![s] = "idle"]
    /\ closure' = [closure EXCEPT ![s] = NoClosure]
    /\ calls' = [calls EXCEPT ![s] = Ended(log)]
    /\ localStorage' = [localStorage EXCEPT ![s] =
                          storageRemove(@, getBackupKey(RepoFullName, closure[s].filePath))]
    /\ UNCHANGED <<filePath, selects, editorVars, loads, timeout, committed>>

\* A handler that sends a failed call once more.
PushEndsRetrying(s, kind, log) ==
    IF kind = "failed"
    THEN /\ calls' = [calls EXCEPT ![s] =
                        Append(log, [log[Len(log)] EXCEPT !.result = "pending"])]
         /\ UNCHANGED <<filePath, selects, editorVars, loads, localStorage, timeout,
                        committed, toast, isSaving, pc, closure>>
    ELSE /\ toast' = [toast EXCEPT ![s] = kind]
         /\ isSaving' = [isSaving EXCEPT ![s] = FALSE]
         /\ pc' = [pc EXCEPT ![s] = "idle"]
         /\ closure' = [closure EXCEPT ![s] = NoClosure]
         /\ calls' = [calls EXCEPT ![s] = Ended(log)]
         /\ UNCHANGED <<filePath, selects, editorVars, loads, localStorage, timeout,
                        committed>>

\* A handler without the finally block: an attempt that threw leaves
\* isSaving as it is.
PushEndsSaving(s, kind, log) ==
    /\ toast' = [toast EXCEPT ![s] = kind]
    /\ isSaving' = [isSaving EXCEPT ![s] = (kind \in {"failed", "conflict"})]
    /\ pc' = [pc EXCEPT ![s] = "idle"]
    /\ closure' = [closure EXCEPT ![s] = NoClosure]
    /\ calls' = [calls EXCEPT ![s] = Ended(log)]
    /\ UNCHANGED <<filePath, selects, editorVars, loads, localStorage, timeout,
                   committed>>

\* The handler returns or throws without committing: the toast it leaves
\* (kind), then the finally block.  log is the history of the attempt.
PushEnds(s, kind, log) ==
    /\ toast' = [toast EXCEPT ![s] = kind]
    /\ isSaving' = [isSaving EXCEPT ![s] = FALSE]
    /\ pc' = [pc EXCEPT ![s] = "idle"]
    /\ closure' = [closure EXCEPT ![s] = NoClosure]
    /\ calls' = [calls EXCEPT ![s] = Ended(log)]
    /\ UNCHANGED <<filePath, selects, editorVars, loads, localStorage, timeout,
                   committed>>

\* The handler goes on to await its next call, req.
PushAwaits(s, next, loading, log, req) ==
    /\ toast' = [toast EXCEPT ![s] = loading]
    /\ pc' = [pc EXCEPT ![s] = next]
    /\ calls' = [calls EXCEPT ![s] = Append(log, Call(req))]
    /\ UNCHANGED <<filePath, selects, editorVars, isSaving, closure, loads,
                   localStorage, timeout, committed>>

\* Step 1 answered: scanSecrets returns or throws.
ScanAnswered(s, resp) ==
    LET r == request(resp)
        log == Answered(calls[s], ScanResult(resp), ScanFound(resp))
    IN  /\ pc[s] = "scanning"
        /\ IF ~r.ok
           THEN PushEnds(s, PushErrorToast(r.message), log)
           ELSE IF ScanBlocks(r.value)
           THEN PushEnds(s, "secrets", log)
           ELSE PushAwaits(s, "validating", "validating", log,
                           SyntaxRequest(closure[s]))
        /\ UNCHANGED backend

\* Step 2 answered: validateSyntax returns or throws.
SyntaxAnswered(s, resp) ==
    LET r == request(resp)
        log == Answered(calls[s], SyntaxResult(resp), 0)
    IN  /\ pc[s] = "validating"
        /\ IF ~r.ok
           THEN PushEnds(s, PushErrorToast(r.message), log)
           ELSE IF SyntaxBlocks(r.value)
           THEN PushEnds(s, "syntax", log)
           ELSE PushAwaits(s, "committing", "pushing", log, CommitRequest(s))
        /\ UNCHANGED backend

\* A handler that keeps the sha it sent.
NextShaKept(file_sha, oldSha) == oldSha

\* commitResult.file_sha || sha
NextSha(file_sha, oldSha) == IF file_sha # EmptySha THEN file_sha ELSE oldSha

\* if (commitResult.success) { ... }, then the finally block.
PushSucceeded(s, commitResult, log) ==
    LET c == closure[s]
    IN  /\ toast' = [toast EXCEPT ![s] = "success"]
        /\ sha' = [sha EXCEPT ![s] = NextSha(commitResult.file_sha, c.sha)]
        /\ originalContent' = [originalContent EXCEPT ![s] = c.content]
        /\ hasUnsavedChanges' = [hasUnsavedChanges EXCEPT ![s] = FALSE]
        /\ localStorage' = [localStorage EXCEPT ![s] =
                              storageRemove(@, getBackupKey(RepoFullName, c.filePath))]
        /\ isSaving' = [isSaving EXCEPT ![s] = FALSE]
        /\ pc' = [pc EXCEPT ![s] = "idle"]
        /\ closure' = [closure EXCEPT ![s] = NoClosure]
        /\ calls' = [calls EXCEPT ![s] = Ended(log)]
        /\ UNCHANGED <<filePath, selects, content, isLoading, isBinary,
                       hasLocalBackup, loads, timeout>>

\* The history of who holds the fingerprint of a file it committed, after
\* the backend took a write of path p from editor s (0: from someone who is
\* no editor).
CommittedAfter(s, p) ==
    [e \in Editors |-> IF e = s THEN p
                       ELSE IF committed[e] = p THEN Null
                       ELSE committed[e]]

\* Step 3 answered: the backend handles the request in flight and commitFile
\* returns or throws.  A result with success = false falls through to the
\* finally block.
CommitAnswered(s) ==
    /\ pc[s] = "committing"
    /\ \E out \in CommitOutcomes(LastCall(s)) :
         LET r == request(out.resp)
             log == Answered(calls[s], CommitResult(out.resp), 0)
         IN  /\ backend' = out.after
             /\ IF ~r.ok
                THEN PushEnds(s, PushErrorToast(r.message), log)
                ELSE IF r.value.success
                THEN /\ PushSucceeded(s, r.value, log)
                     /\ committed' = CommittedAfter(s, LastCall(s).file_path)
                ELSE PushEnds(s, toast[s], log)

(***************************************************************************)
(* Someone else (another client of the repository) writes a file.          *)
(***************************************************************************)
OtherWrite(p, c) ==
    /\ Writes < MaxWrites
    /\ c # backend[p].content
    /\ backend' = [backend EXCEPT ![p] = [content |-> c, ver |-> @.ver + 1]]
    /\ committed' = CommittedAfter(0, p)
    /\ UNCHANGED <<filePath, selects, editorVars, loads, pushVars, localStorage, timeout>>

(***************************************************************************)
(* The editors and the rest of the world.                                  *)
(***************************************************************************)
Next ==
    \/ UNCHANGED besideEditing /\ \E s \in Editors, p \in Paths : handleFileSelect(s, p)
    \/ UNCHANGED besideEditing /\ \E s \in Editors, p \in Paths : \E resp \in FileResponses(p) : loadFile(s, p, resp)
    \/ UNCHANGED besideEditing /\ \E s \in Editors, value \in Contents : handleEditorChange(s, value)
    \/ UNCHANGED besideEditing /\ \E s \in Editors, key \in BackupKeys : debounceTimeout(s, key)
    \/ UNCHANGED besideEditing /\ \E s \in Editors : restoreBackup(s)
    \/ UNCHANGED besideEditing /\ \E s \in Editors : handleSafePush(s)
    \/ UNCHANGED besideEditing /\ \E s \in Editors : \E resp \in ScanResponses : ScanAnswered(s, resp)
    \/ UNCHANGED besideEditing /\ \E s \in Editors : \E resp \in SyntaxResponses : SyntaxAnswered(s, resp)
    \/ UNCHANGED besideEditing /\ \E s \in Editors : CommitAnswered(s)
    \/ UNCHANGED besideEditing /\ \E p \in OtherPaths, c \in Contents : OtherWrite(p, c)

Spec == Init /\ [][Next]_vars

(***************************************************************************)
(* Two browser sessions on the same file.  The scan and the syntax check  *)
(* answer; the sessions race at the backend.                               *)
(***************************************************************************)
RaceInit ==
    /\ InitBackend
    /\ InitEditors({1, 2}, "a.py")
    /\ InitMagic
    /\ EngineIdle
    /\ MiddlewareIdle
    /\ ClockIdle
    /\ InitDashboard
    /\ InitCleared

ScanAnswers == { r \in ScanResponses : request(r).ok /\ r.body.secrets_found = 0 }
SyntaxAnswers == { r \in SyntaxResponses : request(r).ok }
FileAnswers(p) == { r \in FileResponses(p) : request(r).ok }

RaceNext ==
    \/ UNCHANGED besideEditing /\ \E s \in Editors, p \in Paths : \E resp \in FileAnswers(p) : loadFile(s, p, resp)
    \/ UNCHANGED besideEditing /\ \E s \in Editors, value \in Contents : handleEditorChange(s, value)
    \/ UNCHANGED besideEditing /\ \E s \in Editors : handleSafePush(s)
    \/ UNCHANGED besideEditing /\ \E s \in Editors : \E resp \in ScanAnswers : ScanAnswered(s, resp)
    \/ UNCHANGED besideEditing /\ \E s \in Editors : \E resp \in SyntaxAnswers : SyntaxAnswered(s, resp)
    \/ UNCHANGED besideEditing /\ \E s \in Editors : CommitAnswered(s)

RaceSpec == RaceInit /\ [][RaceNext]_vars

(***************************************************************************)
(* Properties of Safe Push.                                                *)
(***************************************************************************)
\* The latest attempt of editor s has ended.
AttemptEnded(s) == pc[s] = "idle" /\ calls[s] # <<>>

\* How many calls of kind k the history holds.
KindCount(log, k) == Cardinality({ i \in DOMAIN log : log[i].kind = k })

\* C1: in an attempt whose scan answered is_safe = false, whatever its
\* secrets_found, the only call is the scan: no validate call and no commit
\* call is issued.
C1Theorem ==
    \A s \in Editors : \A i \in DOMAIN calls[s] :
        (calls[s][i].kind = "scan" /\ calls[s][i].result = "unsafe")
            => \A j \in DOMAIN calls[s] : calls[s][j].kind = "scan"

\* An attempt ended by a scan that said is_safe = false with secrets_found 0.
C1Witness ==
    \E s \in Editors :
        /\ AttemptEnded(s)
        /\ calls[s][1].result = "unsafe"
        /\ calls[s][1].found = 0
        /\ toast[s] = "secrets"

\* C2: a commit call is the third call of its attempt, after a scan that
\* answered is_safe = true and a validate that answered is_valid = true, and
\* all three carry the same content; after is_valid = false there is no
\* commit call.
C2Theorem ==
    \A s \in Editors :
        /\ \A i \in DOMAIN calls[s] :
             calls[s][i].kind = "commit" =>
                /\ i = 3
                /\ calls[s][1].kind = "scan" /\ calls[s][1].result = "safe"
                /\ calls[s][2].kind = "validate" /\ calls[s][2].result = "valid"
                /\ calls[s][1].content = calls[s][3].content
                /\ calls[s][2].content = calls[s][3].content
        /\ \A i \in DOMAIN calls[s] :
             calls[s][i].result = "invalid" => KindCount(calls[s], "commit") = 0

\* A commit call in flight while the user has edited the text since the click.
C2Witness ==
    \E s \in Editors :
        /\ pc[s] = "committing"
        /\ content[s] # LastCall(s).content
        /\ content[s] # calls[s][1].content

\* C3: two sessions push from the same fingerprint of the same file and the
\* backend answers both by its lock: not both end Committed, and when one is
\* accepted the other ends as a conflict rejection.
C3Claim ==
    \A s1 \in Editors, s2 \in Editors :
        ( /\ s1 # s2
          /\ AttemptEnded(s1) /\ AttemptEnded(s2)
          /\ LastCall(s1).kind = "commit" /\ LastCall(s2).kind = "commit"
          /\ LastCall(s1).expected_sha = LastCall(s2).expected_sha
          /\ LastCall(s1).result \in {"accepted", "mismatch"}
          /\ LastCall(s2).result \in {"accepted", "mismatch"} )
        => /\ ~(toast[s1] = "success" /\ toast[s2] = "success")
           /\ ~(LastCall(s1).result = "accepted" /\ LastCall(s2).result = "accepted")
           /\ LastCall(s1).result = "accepted" => toast[s2] = "conflict"

\* C4: a commit call answered with status 409 ends the attempt with the
\* Merge Conflict toast, whatever the text of the error.
C4Claim ==
    \A s \in Editors :
        (AttemptEnded(s) /\ LastCall(s).kind = "commit" /\ LastCall(s).result = "mismatch")
            => toast[s] = "conflict"

C6Claim ==
    \A s \in Editors :
        pc[s] = "committing" =>
            /\ LastCall(s).expected_sha # EmptySha
            /\ LastCall(s).expected_sha[1] = LastCall(s).file_path

\* C7: a step of handleSafePush other than the one that ends Committed
\* changes none of content, originalContent, sha, hasUnsavedChanges, the
\* localStorage of the editor, and the backend.
C7Theorem ==
    [][ \A s \in Editors :
          (calls'[s] # calls[s] /\ toast'[s] # "success") =>
              /\ content'[s] = content[s]
              /\ originalContent'[s] = originalContent[s]
              /\ sha'[s] = sha[s]
              /\ hasUnsavedChanges'[s] = hasUnsavedChanges[s]
              /\ localStorage'[s] = localStorage[s]
              /\ backend' = backend ]_vars

\* An attempt has ended in a rejection or failure with the unsaved text and
\* its backup still there.
C7Witness ==
    \E s \in Editors :
        /\ AttemptEnded(s)
        /\ toast[s] \in {"secrets", "syntax", "conflict", "failed"}
        /\ hasUnsavedChanges[s]
        /\ content[s] # originalContent[s]
        /\ localStorage[s][backupKey(s)] = <<content[s]>>

\* C8: an attempt holds at most one call of each kind, and a call is pending
\* only as the latest call of an attempt that has not ended.
C8Theorem ==
    \A s \in Editors :
        /\ \A k \in {"scan", "validate", "commit"} : KindCount(calls[s], k) <= 1
        /\ \A i \in DOMAIN calls[s] :
             calls[s][i].result = "pending" => (i = Len(calls[s]) /\ pc[s] # "idle")

\* An attempt has ended in a rejection or failure of its commit call.
C8Witness ==
    \E s \in Editors :
        /\ AttemptEnded(s)
        /\ Len(calls[s]) = 3
        /\ LastCall(s).result \in {"mismatch", "error"}

\* C9: an attempt that has ended has left one of the terminal toasts.
C9Claim ==
    \A s \in Editors :
        AttemptEnded(s) =>
            toast[s] \in {"secrets", "syntax", "success", "conflict", "failed"}

\* C10: an attempt ended by a call that failed for the network or the
\* service has left the Push failed toast.
C10Claim ==
    \A s \in Editors :
        (AttemptEnded(s) /\ LastCall(s).result = "error") => toast[s] = "failed"

(***************************************************************************)
(* The Structural Smart-Replace engine behind smartReplace: Replacement    *)
(* Planner and Patch Applier, over texts held as sequences of characters   *)
(* and offsets that count from 0, half-open.                               *)
(***************************************************************************)
\* Longest file text.
MaxText == 3

TextChars == {"a", " ", "\n"}
Whitespace == {" ", "\n"}
Names == {"f", "g"}
Kinds == {"Function", "Class"}

\* The texts of at most n characters.
TextsUpTo(n) == UNION { [1..k -> TextChars] : k \in 0..n }

\* text[a:b]
Slice(text, a, b) == SubSeq(text, a + 1, b)

\* Whether text ends in a newline.
EndsInNewline(text) == Len(text) > 0 /\ text[Len(text)] = "\n"

\* The text without leading and trailing whitespace.
RECURSIVE Trimmed(_)
Trimmed(text) ==
    IF text = <<>> THEN <<>>
    ELSE IF text[1] \in Whitespace THEN Trimmed(Tail(text))
    ELSE IF text[Len(text)] \in Whitespace THEN Trimmed(SubSeq(text, 1, Len(text) - 1))
    ELSE text

\* The indentation in front of offset start: the blanks between the start
\* of its line and the offset.
RECURSIVE IndentBefore(_, _)
IndentBefore(text, start) ==
    IF start > 0 /\ text[start] = " "
    THEN Append(IndentBefore(text, start - 1), " ")
    ELSE <<>>

\* Every non-empty line of text, from character i on, shifted by prefix.
RECURSIVE ShiftedFrom(_, _, _)
ShiftedFrom(text, i, prefix) ==
    IF i > Len(text) THEN <<>>
    ELSE LET lineStart == i = 1 \/ text[i - 1] = "\n"
             shift == IF lineStart /\ text[i] # "\n" THEN prefix ELSE <<>>
         IN  shift \o <<text[i]>> \o ShiftedFrom(text, i + 1, prefix)

\* fragment_text, trimmed and re-indented to indent_prefix.
Inserted(fragment_text, indent_prefix) ==
    ShiftedFrom(Trimmed(fragment_text), 1, indent_prefix)

\* The spans of a text of n characters.
Spans(n) ==
    { sp \in [start_offset : 0..n, end_offset : 0..n] :
        sp.start_offset < sp.end_offset }

\* A construct of the text at span sp.
Construct(text, name, kind, sp) ==
    [name |-> name, kind |-> kind, span |-> sp,
     indent_prefix |-> IndentBefore(text, sp.start_offset)]

\* What locate may return for the text from offset `from` on: constructs
\* in ascending order of start_offset whose spans do not overlap.
RECURSIVE ConstructListsFrom(_, _)
ConstructListsFrom(text, from) ==
    {<<>>} \cup
    UNION { { <<Construct(text, n, k, sp)>> \o l :
                n \in Names, k \in Kinds,
                l \in ConstructListsFrom(text, sp.end_offset) }
            : sp \in { s \in Spans(Len(text)) : s.start_offset >= from } }

ConstructLists(text) == ConstructListsFrom(text, 0)

\* What classify may return: a fragment without a definition, or one whose
\* first definition is a function f.
FragmentTexts == { <<"a">>, <<" ", "a">>, <<"a", "\n", "a">> }
Fragments ==
    { [raw_text |-> r, declared_name |-> None, kind |-> None] : r \in FragmentTexts }
    \cup { [raw_text |-> r, declared_name |-> Some("f"), kind |-> Some("Function")]
             : r \in FragmentTexts }

\* The constructs that match the fragment.
Matches(constructs, frag) ==
    { i \in DOMAIN constructs :
        /\ Some(constructs[i].name) = frag.declared_name
        /\ Some(constructs[i].kind) = frag.kind }

Last(S) == CHOOSE i \in S : \A j \in S : j <= i
First(S) == CHOOSE i \in S : \A j \in S : i <= j

AppendPlan == [operation |-> "Append", target_span |-> None, target_name |-> None]
ReplacePlan(c) ==
    [operation |-> "Replace", target_span |-> Some(c.span), target_name |-> Some(c.name)]

\* A planner that matches on the name alone.
planByName(constructs, frag) ==
    LET m == { i \in DOMAIN constructs : Some(constructs[i].name) = frag.declared_name }
    IN  IF frag.declared_name = None \/ m = {} THEN AppendPlan
        ELSE ReplacePlan(constructs[Last(m)])

\* A planner that targets the first match.
planFirst(constructs, frag) ==
    LET m == Matches(constructs, frag)
    IN  IF frag.declared_name = None \/ m = {} THEN AppendPlan
        ELSE ReplacePlan(constructs[First(m)])

\* plan(file_constructs, fragment) -> ReplacementPlan
plan(constructs, frag) ==
    LET m == Matches(constructs, frag)
    IN  IF frag.declared_name = None THEN AppendPlan
        ELSE IF m = {} THEN AppendPlan
        ELSE ReplacePlan(constructs[Last(m)])

\* The separator of an Append.
Separator(text) == IF EndsInNewline(text) THEN <<"\n">> ELSE <<"\n", "\n">>

\* An applier that replaces through the end of the line after the span.
applyGreedy(text, p, fragment_text) ==
    IF p.operation = "Replace"
    THEN LET sp == p.target_span[1]
             end == IF sp.end_offset < Len(text) THEN sp.end_offset + 1
                    ELSE sp.end_offset
         IN  [updated_content |->
                  Slice(text, 0, sp.start_offset)
                      \o Inserted(fragment_text, IndentBefore(text, sp.start_offset))
                      \o Slice(text, end, Len(text)),
              operation |-> p.operation, target_name |-> p.target_name,
              original_excerpt |-> Some(Slice(text, sp.start_offset, end))]
    ELSE [updated_content |-> text \o Separator(text) \o fragment_text,
          operation |-> p.operation, target_name |-> p.target_name,
          original_excerpt |-> None]

\* An applier that always separates by one newline.
applyOneNewline(text, p, fragment_text) ==
    IF p.operation = "Replace"
    THEN LET sp == p.target_span[1]
         IN  [updated_content |->
                  Slice(text, 0, sp.start_offset)
                      \o Inserted(fragment_text, IndentBefore(text, sp.start_offset))
                      \o Slice(text, sp.end_offset, Len(text)),
              operation |-> p.operation, target_name |-> p.target_name,
              original_excerpt |-> Some(Slice(text, sp.start_offset, sp.end_offset))]
    ELSE [updated_content |-> text \o <<"\n">> \o fragment_text,
          operation |-> p.operation, target_name |-> p.target_name,
          original_excerpt |-> None]

\* apply(original_text, plan, fragment_text) -> PatchResult
apply(text, p, fragment_text) ==
    IF p.operation = "Replace"
    THEN LET sp == p.target_span[1]
         IN  [updated_content |->
                  Slice(text, 0, sp.start_offset)
                      \o Inserted(fragment_text, IndentBefore(text, sp.start_offset))
                      \o Slice(text, sp.end_offset, Len(text)),
              operation |-> p.operation, target_name |-> p.target_name,
              original_excerpt |-> Some(Slice(text, sp.start_offset, sp.end_offset))]
    ELSE [updated_content |-> text \o Separator(text) \o fragment_text,
          operation |-> p.operation, target_name |-> p.target_name,
          original_excerpt |-> None]

\* A request arrives: the file text, what the locator found in it and the
\* classified fragment.  No editor is mounted.
EngineInit ==
    /\ InitBackend
    /\ InitEditors({}, "a.py")
    /\ InitMagic
    /\ MiddlewareIdle
    /\ ClockIdle
    /\ InitDashboard
    /\ InitCleared
    /\ original_text \in TextsUpTo(MaxText)
    /\ file_constructs \in ConstructLists(original_text)
    /\ fragment \in Fragments
    /\ planned = None
    /\ patched = None

\* The Replacement Planner runs.
Plan ==
    /\ planned = None
    /\ planned' = Some(plan(file_constructs, fragment))
    /\ UNCHANGED <<original_text, file_constructs, fragment, patched>>

\* The Patch Applier runs on the plan.
Apply ==
    /\ planned # None
    /\ patched = None
    /\ patched' = Some(apply(original_text, planned[1], fragment.raw_text))
    /\ UNCHANGED <<original_text, file_constructs, fragment, planned>>

EngineNext ==
    \/ UNCHANGED besideEngine /\ Plan
    \/ UNCHANGED besideEngine /\ Apply

EngineSpec == EngineInit /\ [][EngineNext]_vars

(***************************************************************************)
(* Properties of the Smart-Replace engine.                                 *)
(***************************************************************************)
\* A construct of the file has the declared name and the kind of the fragment.
HasMatch ==
    /\ fragment.declared_name # None
    /\ \E i \in DOMAIN file_constructs :
         /\ file_constructs[i].name = fragment.declared_name[1]
         /\ file_constructs[i].kind = fragment.kind[1]

\* The matching constructs, and the one among them that starts last.
MatchingConstructs ==
    { file_constructs[i] : i \in Matches(file_constructs, fragment) }

LastMatching ==
    CHOOSE c \in MatchingConstructs :
        \A d \in MatchingConstructs : d.span.start_offset <= c.span.start_offset

\* C11: the plan is a Replace exactly if the fragment has a declared name
\* and a construct of the file has that name and the fragment's kind; in
\* every other case it is an Append with target_span = None.
C11Theorem ==
    planned # None =>
        /\ planned[1].operation = "Replace" <=> HasMatch
        /\ ~HasMatch =>
              (planned[1].operation = "Append" /\ planned[1].target_span = None)

\* An Append was planned for a named fragment although a construct of the
\* file has its name, with another kind.
C11Witness ==
    /\ planned # None
    /\ planned[1].operation = "Append"
    /\ planned[1].target_span = None
    /\ fragment.declared_name # None
    /\ \E i \in DOMAIN file_constructs :
         Some(file_constructs[i].name) = fragment.declared_name

\* C12: when several constructs match, the plan is a Replace of the span of
\* the match that starts last, and the patch leaves the text of every
\* earlier match as it was.
C12Theorem ==
    Cardinality(Matches(file_constructs, fragment)) >= 2 =>
        /\ planned # None =>
              /\ planned[1].operation = "Replace"
              /\ planned[1].target_span = Some(LastMatching.span)
        /\ patched # None =>
              \A c \in MatchingConstructs \ {LastMatching} :
                  Slice(patched[1].updated_content, c.span.start_offset,
                        c.span.end_offset)
                      = Slice(original_text, c.span.start_offset, c.span.end_offset)

\* A file with two matches was patched and its text changed.
C12Witness ==
    /\ Cardinality(Matches(file_constructs, fragment)) >= 2
    /\ patched # None
    /\ patched[1].updated_content # original_text

\* C13: the result of a Replace is the text before the span, the inserted
\* fragment and the text after the span; prefix and suffix are those of the
\* original, and original_excerpt is the slice removed.
C13Theorem ==
    (patched # None /\ planned[1].operation = "Replace") =>
        LET sp == planned[1].target_span[1]
            u == patched[1].updated_content
            tail == Len(original_text) - sp.end_offset
            ins == Inserted(fragment.raw_text,
                            IndentBefore(original_text, sp.start_offset))
        IN  /\ Len(u) = sp.start_offset + Len(ins) + tail
            /\ Slice(u, 0, sp.start_offset) = Slice(original_text, 0, sp.start_offset)
            /\ Slice(u, sp.start_offset, sp.start_offset + Len(ins)) = ins
            /\ Slice(u, Len(u) - tail, Len(u))
                  = Slice(original_text, sp.end_offset, Len(original_text))
            /\ patched[1].original_excerpt
                  = Some(Slice(original_text, sp.start_offset, sp.end_offset))

\* A Replace in the middle of the file: text before and after the span.
C13Witness ==
    /\ patched # None
    /\ planned[1].operation = "Replace"
    /\ planned[1].target_span[1].start_offset > 0
    /\ planned[1].target_span[1].end_offset < Len(original_text)

\* C14: the result of an Append is the original text, then a newline if the
\* original does not end in one, then one more newline, then the fragment
\* text; original_excerpt is None.
C14Theorem ==
    (patched # None /\ planned[1].operation = "Append") =>
        LET u == patched[1].updated_content
            n == Len(original_text)
            f == Len(fragment.raw_text)
            sep == Slice(u, n, Len(u) - f)
        IN  /\ Len(u) >= n + f
            /\ Slice(u, 0, n) = original_text
            /\ Slice(u, Len(u) - f, Len(u)) = fragment.raw_text
            /\ sep = IF n > 0 /\ original_text[n] = "\n" THEN <<"\n">>
                     ELSE <<"\n", "\n">>
            /\ patched[1].original_excerpt = None

\* An Append to a file that does not end in a newline.
C14Witness ==
    /\ patched # None
    /\ planned[1].operation = "Append"
    /\ original_text # <<>>
    /\ original_text[Len(original_text)] # "\n"

(***************************************************************************)
(* SmartEditor: Magic Paste.                                               *)
(***************************************************************************)
\* What the user may type into the Magic Paste input.
Snippets == { <<>>, <<" ">>, <<"a">> }

\* POST /api/smart/replace: SmartReplaceResponse, or a failure.
BlankReplaceBody == [success |-> FALSE, updated_content |-> "", operation |-> "appended"]
SmartReplaceResponses ==
    { HttpOk([success |-> ok, updated_content |-> c, operation |-> op])
        : ok \in BOOLEAN, c \in Contents, op \in {"replaced", "appended"} }
        \cup ServiceFailures(BlankReplaceBody)

\* The Dialog is part of the editor view; it is open when showMagicPaste.
DialogShown(s) == EditorShown(s) /\ showMagicPaste[s]

\* The Magic Paste button: setShowMagicPaste(true).
openMagicPaste(s) ==
    /\ EditorShown(s)
    /\ ~showMagicPaste[s]
    /\ showMagicPaste' = [showMagicPaste EXCEPT ![s] = TRUE]
    /\ UNCHANGED <<editingVars, magicPasteCode, magicPasteResult, isProcessingMagic,
                   smartReplaceCall, magicToast, resultRequest>>

\* Cancel, or the Dialog's onOpenChange(false): setShowMagicPaste(false).
closeMagicPaste(s) ==
    /\ DialogShown(s)
    /\ showMagicPaste' = [showMagicPaste EXCEPT ![s] = FALSE]
    /\ UNCHANGED <<editingVars, magicPasteCode, magicPasteResult, isProcessingMagic,
                   smartReplaceCall, magicToast, resultRequest>>

\* onChange of the input view's editor: setMagicPasteCode(v || "").
setMagicPasteCode(s, v) ==
    /\ DialogShown(s)
    /\ magicPasteResult[s] = None
    /\ v # magicPasteCode[s]
    /\ magicPasteCode' = [magicPasteCode EXCEPT ![s] = v]
    /\ UNCHANGED <<editingVars, showMagicPaste, magicPasteResult, isProcessingMagic,
                   smartReplaceCall, magicToast, resultRequest>>

\* handleMagicPaste up to the await, the onClick of Apply Magic, which is
\* disabled while the code is blank or a request is in flight.
handleMagicPaste(s) ==
    /\ DialogShown(s)
    /\ magicPasteResult[s] = None
    /\ Trimmed(magicPasteCode[s]) # <<>>
    /\ ~isProcessingMagic[s]
    /\ isProcessingMagic' = [isProcessingMagic EXCEPT ![s] = TRUE]
    /\ smartReplaceCall' = [smartReplaceCall EXCEPT ![s] =
                              Some([file_path |-> filePath[s],
                                    full_file_content |-> content[s],
                                    new_snippet |-> magicPasteCode[s]])]
    /\ UNCHANGED <<editingVars, showMagicPaste, magicPasteCode, magicPasteResult,
                   magicToast, resultRequest>>

\* A handler that writes the result into the editor as soon as it arrives.
SmartReplaceAnsweredApplying(s, resp) ==
    LET r == request(resp)
    IN  /\ smartReplaceCall[s] # None
        /\ smartReplaceCall' = [smartReplaceCall EXCEPT ![s] = None]
        /\ isProcessingMagic' = [isProcessingMagic EXCEPT ![s] = FALSE]
        /\ IF r.ok
           THEN /\ content' = [content EXCEPT ![s] = r.value.updated_content]
                /\ hasUnsavedChanges' = [hasUnsavedChanges EXCEPT ![s] = TRUE]
                /\ UNCHANGED magicToast
           ELSE /\ magicToast' = [magicToast EXCEPT ![s] = "Smart Replace failed"]
                /\ UNCHANGED <<content, hasUnsavedChanges>>
        /\ UNCHANGED <<backend, filePath, originalContent, sha, isLoading, isSaving,
                       isBinary, hasLocalBackup, loads, pc, closure, toast,
                       localStorage, timeout, calls, selects, committed,
                       showMagicPaste, magicPasteCode, magicPasteResult, resultRequest>>

\* handleMagicPaste from the await on: setMagicPasteResult(result), or the
\* error toast; finally setIsProcessingMagic(false).
SmartReplaceAnswered(s, resp) ==
    LET r == request(resp)
    IN  /\ smartReplaceCall[s] # None
        /\ smartReplaceCall' = [smartReplaceCall EXCEPT ![s] = None]
        /\ isProcessingMagic' = [isProcessingMagic EXCEPT ![s] = FALSE]
        /\ IF r.ok
           THEN /\ magicPasteResult' = [magicPasteResult EXCEPT ![s] = Some(r.value)]
                /\ resultRequest' = [resultRequest EXCEPT ![s] = smartReplaceCall[s]]
                /\ UNCHANGED magicToast
           ELSE /\ magicToast' = [magicToast EXCEPT ![s] = "Smart Replace failed"]
                /\ UNCHANGED <<magicPasteResult, resultRequest>>
        /\ UNCHANGED <<editingVars, showMagicPaste, magicPasteCode>>

\* acceptMagicPaste, the onClick of Accept Changes in the diff view.
acceptMagicPaste(s) ==
    /\ DialogShown(s)
    /\ magicPasteResult[s] # None
    /\ content' = [content EXCEPT ![s] = magicPasteResult[s][1].updated_content]
    /\ hasUnsavedChanges' = [hasUnsavedChanges EXCEPT ![s] = TRUE]
    /\ magicToast' = [magicToast EXCEPT ![s] = "message"]
    /\ showMagicPaste' = [showMagicPaste EXCEPT ![s] = FALSE]
    /\ magicPasteCode' = [magicPasteCode EXCEPT ![s] = <<>>]
    /\ magicPasteResult' = [magicPasteResult EXCEPT ![s] = None]
    /\ resultRequest' = [resultRequest EXCEPT ![s] = None]
    /\ UNCHANGED <<backend, filePath, originalContent, sha, isLoading, isSaving,
                   isBinary, hasLocalBackup, loads, pc, closure, toast,
                   localStorage, timeout, calls, selects, committed,
                   isProcessingMagic, smartReplaceCall>>

\* rejectMagicPaste, the onClick of Reject in the diff view.
rejectMagicPaste(s) ==
    /\ DialogShown(s)
    /\ magicPasteResult[s] # None
    /\ magicPasteResult' = [magicPasteResult EXCEPT ![s] = None]
    /\ resultRequest' = [resultRequest EXCEPT ![s] = None]
    /\ UNCHANGED <<editingVars, showMagicPaste, magicPasteCode, isProcessingMagic,
                   smartReplaceCall, magicToast>>

\* One editor with Magic Paste.  The open Dialog is modal: the file tree
\* and the main editor are used while it is closed.
MagicNext ==
    \/ UNCHANGED besideEditing /\ \E s \in Editors, p \in Paths :
          ~DialogShown(s) /\ handleFileSelect(s, p)
    \/ UNCHANGED besideEditing /\ \E s \in Editors, p \in Paths : \E resp \in FileResponses(p) :
          loadFile(s, p, resp)
    \/ UNCHANGED besideEditing /\ \E s \in Editors, value \in Contents :
          ~DialogShown(s) /\ handleEditorChange(s, value)
    \/ UNCHANGED besideEditing /\ \E s \in Editors, key \in BackupKeys : debounceTimeout(s, key)
    \/ UNCHANGED besideMagic /\ \E s \in Editors : openMagicPaste(s)
    \/ UNCHANGED besideMagic /\ \E s \in Editors : closeMagicPaste(s)
    \/ UNCHANGED besideMagic /\ \E s \in Editors, v \in Snippets : setMagicPasteCode(s, v)
    \/ UNCHANGED besideMagic /\ \E s \in Editors : handleMagicPaste(s)
    \/ UNCHANGED besideMagic /\ \E s \in Editors : \E resp \in SmartReplaceResponses :
          SmartReplaceAnswered(s, resp)
    \/ UNCHANGED besideMagic /\ \E s \in Editors : acceptMagicPaste(s)
    \/ UNCHANGED besideMagic /\ \E s \in Editors : rejectMagicPaste(s)

MagicSpec == Init /\ [][MagicNext]_vars

\* The step is acceptMagicPaste of editor s: the result is taken and the
\* Dialog closes.
Accepts(s) ==
    /\ magicPasteResult[s] # None
    /\ magicPasteResult'[s] = None
    /\ ~showMagicPaste'[s]

\* The Magic Paste state of editor s.
MagicOf(s) ==
    <<showMagicPaste[s], magicPasteCode[s], magicPasteResult[s], isProcessingMagic[s],
      smartReplaceCall[s], magicToast[s]>>

\* C15: a step of Magic Paste other than acceptMagicPaste (opening and
\* closing the dialog, typing the snippet, sending the request, receiving
\* its result or its failure, rejecting the result) leaves content,
\* originalContent, sha and hasUnsavedChanges of the editor unchanged.
C15Theorem ==
    [][\A s \in Editors :
          (MagicOf(s)' # MagicOf(s) /\ ~Accepts(s)) =>
              /\ content'[s] = content[s]
              /\ originalContent'[s] = originalContent[s]
              /\ sha'[s] = sha[s]
              /\ hasUnsavedChanges'[s] = hasUnsavedChanges[s]]_vars

\* A request failed, a later one brought a result with another content
\* than the editor's, and the editor still holds the file as loaded.
C15Witness ==
    \E s \in Editors :
        /\ EditorShown(s)
        /\ magicToast[s] = "Smart Replace failed"
        /\ magicPasteResult[s] # None
        /\ magicPasteResult[s][1].updated_content # content[s]
        /\ content[s] = originalContent[s]
        /\ ~hasUnsavedChanges[s]
        /\ sha[s] # EmptySha

\* C16: Magic Paste changes content only to the updated_content of a
\* smartReplace response with success = true.
C16Claim ==
    [][\A s \in Editors :
          Accepts(s) =>
              \/ content'[s] = content[s]
              \/ /\ magicPasteResult[s][1].success
                 /\ content'[s] = magicPasteResult[s][1].updated_content]_vars

\* C21: when acceptMagicPaste applies a result, the result was computed
\* from a full_file_content equal to the content of the editor at that
\* moment and for the file that is open.
C21Claim ==
    [][\A s \in Editors :
          Accepts(s) =>
              /\ resultRequest[s][1].full_file_content = content[s]
              /\ resultRequest[s][1].file_path = filePath[s]]_vars

(***************************************************************************)
(* middleware: route protection.                                           *)
(***************************************************************************)
\* The longest pathname, in segments.
MaxSegments == 3

TxtRoot == <<"/">>
TxtApiAuth == <<"/","a","p","i","/","a","u","t","h">>
TxtRobots == <<"r","o","b","o","t","s",".","t","x","t">>
TxtPng == <<".","p","n","g">>

\* The segments pathnames are made of.
Segments ==
    { <<"a","p","i">>, <<"a","u","t","h">>, <<"d","a","s","h","b","o","a","r","d">>,
      TxtRobots, <<"l","o","g","o",".","p","n","g">> }

\* The pathnames of at most n segments: "/" and "/s1/.../sk".
RECURSIVE SegmentPaths(_)
SegmentPaths(n) ==
    IF n = 0 THEN { <<>> }
    ELSE { <<>> } \cup { <<"/">> \o s \o rest : s \in Segments, rest \in SegmentPaths(n - 1) }

Pathnames == { IF q = <<>> THEN TxtRoot ELSE q : q \in SegmentPaths(MaxSegments) }

\* String.prototype.startsWith and endsWith.
StartsWith(str, prefix) ==
    Len(prefix) <= Len(str) /\ SubSeq(str, 1, Len(prefix)) = prefix

EndsWith(str, suffix) ==
    Len(suffix) <= Len(str) /\ SubSeq(str, Len(str) - Len(suffix) + 1, Len(str)) = suffix

\* config.matcher: the middleware runs unless what follows the first "/"
\* starts with an excluded name or ends in .png; of the excluded names the
\* pathnames of the model can hold robots.txt.
Matched(path) ==
    LET rest == Tail(path)
    IN  ~StartsWith(rest, TxtRobots) /\ ~EndsWith(rest, TxtPng)

publicRoutes == { TxtRoot, TxtApiAuth }

\* publicRoutes.some(route => pathname === route || pathname.startsWith(route))
isPublicRoute(path) ==
    \E route \in publicRoutes : path = route \/ StartsWith(path, route)

NextResponseNext == [kind |-> "next", location |-> <<>>, callbackUrl |-> <<>>]
NextResponseRedirect(location, callbackUrl) ==
    [kind |-> "redirect", location |-> location, callbackUrl |-> callbackUrl]

\* The request is served: by the middleware if the matcher selects it.
middleware ==
    /\ response = None
    /\ response' =
         Some(IF Matched(pathname) /\ ~isLoggedIn /\ ~isPublicRoute(pathname)
              THEN NextResponseRedirect(TxtRoot, pathname)
              ELSE NextResponseNext)
    /\ UNCHANGED <<pathname, isLoggedIn>>

MiddlewareInit ==
    /\ InitBackend
    /\ InitEditors({}, "a.py")
    /\ InitMagic
    /\ EngineIdle
    /\ ClockIdle
    /\ InitDashboard
    /\ InitCleared
    /\ pathname \in Pathnames
    /\ isLoggedIn \in BOOLEAN
    /\ response = None

MiddlewareNext ==
    \/ UNCHANGED besideMiddleware /\ middleware

MiddlewareSpec == MiddlewareInit /\ [][MiddlewareNext]_vars

\* C17: a request without a session whose pathname is neither "/" nor under
\* "/api/auth" is answered with a redirect to "/" that carries the pathname
\* as callbackUrl; a request passes only if its route is public or it holds
\* a session.
C17Claim ==
    response # None =>
        LET public == pathname = TxtRoot \/ StartsWith(pathname, TxtApiAuth)
        IN  /\ (~isLoggedIn /\ ~public) =>
                  response[1] = NextResponseRedirect(TxtRoot, pathname)
            /\ response[1].kind = "next" => (public \/ isLoggedIn)

(***************************************************************************)
(* SmartEditor: the debounced backup, with time.                           *)
(***************************************************************************)
\* debounce(..., 30000): the wait in milliseconds.
DebounceWait == 30000

\* The clock advances in steps of DebounceWait / TicksPerWait, MaxTicks
\* times at most.
TicksPerWait == 3
MaxTicks == 6
Tick == DebounceWait \div TicksPerWait

\* Time passes, but not past a timeout that is due.
tick ==
    /\ now + Tick <= MaxTicks * Tick
    /\ \A s \in Editors, k \in BackupKeys : timeout[s][k] # Null => due[s][k] > now
    /\ now' = now + Tick
    /\ UNCHANGED <<editingVars, due, unsavedSince>>

\* handleEditorChange at time now: the debounced saveToLocalStorage clears
\* the pending timeout and sets one that runs DebounceWait from now.
handleEditorChangeAt(s, value) ==
    /\ handleEditorChange(s, value)
    /\ due' = [due EXCEPT ![s][backupKey(s)] = now + DebounceWait]
    /\ unsavedSince' = [unsavedSince EXCEPT ![s] = IF @ = None THEN Some(now) ELSE @]
    /\ UNCHANGED now

\* The timeout runs when it is due: storage.set(backupKey, value) with the
\* value of the latest change.
debounceTimeoutAt(s, key) ==
    /\ due[s][key] <= now
    /\ debounceTimeout(s, key)
    /\ unsavedSince' = [unsavedSince EXCEPT ![s] = None]
    /\ UNCHANGED <<now, due>>

TimedNext ==
    \/ UNCHANGED besideEditing /\ \E s \in Editors, p \in Paths : \E resp \in FileResponses(p) :
          loadFile(s, p, resp)
    \/ UNCHANGED besideTimed /\ \E s \in Editors, value \in Contents : handleEditorChangeAt(s, value)
    \/ UNCHANGED besideTimed /\ \E s \in Editors, key \in BackupKeys : debounceTimeoutAt(s, key)
    \/ UNCHANGED besideTimed /\ tick

TimedSpec == Init /\ [][TimedNext]_vars

\* C18: while the user edits, the content is written to the backup at
\* least once in every interval of 30 seconds: the backup never lags behind
\* what the user typed for longer than that.
C18Claim ==
    \A s \in Editors :
        unsavedSince[s] # None => now - unsavedSince[s][1] <= DebounceWait

(***************************************************************************)
(* DashboardPage and AIChat.                                               *)
(***************************************************************************)
\* The most messages the panel holds when a message is sent.
MaxMessages == 2

\* The fence of a code block: three grave accents, each written "grave".
TxtFence == <<"grave","grave","grave">>

\* What the user may type into the chat input.
ChatInputs == { <<>>, <<" ">>, <<"q">> }

\* What the assistant may answer: no code; a python block holding y; a
\* block holding x in blanks followed by a block whose text follows the
\* fence directly.
ReplyPlain == <<"o","k">>
ReplyCode == TxtFence \o <<"p","y","\n","y","\n">> \o TxtFence
ReplyTwo == TxtFence \o <<"\n"," ","x"," ">> \o TxtFence \o TxtFence \o <<"y">> \o TxtFence
Replies == { ReplyPlain, ReplyCode, ReplyTwo }

\* GET /api/ai/status and POST /api/ai/chat.
BlankStatusBody == [configured |-> FALSE]
AiStatusResponses ==
    { HttpOk([configured |-> c]) : c \in BOOLEAN } \cup ServiceFailures(BlankStatusBody)
BlankChatBody == [content |-> <<>>]
ChatResponses ==
    { HttpOk([content |-> c]) : c \in Replies } \cup ServiceFailures(BlankChatBody)

\* The characters \w matches, of those the texts of the model hold.
WordChars == {"o", "k", "p", "y", "x", "q"}

\* Whether the text holds a fence at position i.
FenceAt(text, i) == i + 2 <= Len(text) /\ SubSeq(text, i, i + 2) = TxtFence

\* [\w]* from position i on: the position after the word characters.
RECURSIVE AfterWord(_, _)
AfterWord(text, i) ==
    IF i <= Len(text) /\ text[i] \in WordChars THEN AfterWord(text, i + 1) ELSE i

\* \n? at position i: the position after the newline, if there is one.
AfterNewline(text, i) == IF i <= Len(text) /\ text[i] = "\n" THEN i + 1 ELSE i

\* The position of the first fence at or after position i; 0 if there is none.
RECURSIVE NextFence(_, _)
NextFence(text, i) ==
    IF i > Len(text) THEN 0
    ELSE IF FenceAt(text, i) THEN i
    ELSE NextFence(text, i + 1)

\* The matches of the code block pattern (a fence, [\w]*, \n?, a lazy
\* group 1 of any characters, a fence) from position i on, each
\* match's group 1 trimmed.
RECURSIVE extractCodeBlocksFrom(_, _)
extractCodeBlocksFrom(text, i) ==
    IF i > Len(text) THEN <<>>
    ELSE IF FenceAt(text, i)
    THEN LET k == AfterNewline(text, AfterWord(text, i + 3))
             j == NextFence(text, k)
         IN  IF j # 0
             THEN <<Trimmed(SubSeq(text, k, j - 1))>> \o extractCodeBlocksFrom(text, j + 3)
             ELSE extractCodeBlocksFrom(text, i + 1)
    ELSE extractCodeBlocksFrom(text, i + 1)

extractCodeBlocks(text) == extractCodeBlocksFrom(text, 1)

\* selectedFile?.split(".").pop(); every path of the model ends in .py.
Extension(path) == "py"

\* The chat UI is rendered unless isConfigured === false.
ChatShown == isConfigured # Some(FALSE)

\* The mount effect of AIChat from the await on.
AiStatusAnswered(resp) ==
    LET r == request(resp)
    IN  /\ statusCall
        /\ statusCall' = FALSE
        /\ isConfigured' = Some(r.ok /\ r.value.configured)
        /\ UNCHANGED <<editingVars, dashboardVars, messages, input, chatIsLoading, chatCall>>

\* The tab switcher: setCurrentTab(tab).
setCurrentTab(tab) ==
    /\ tab # currentTab
    /\ currentTab' = tab
    /\ UNCHANGED <<editingVars, editorContentRef, clipboard, dashToast, chatVars>>

\* onChange of the chat input: setInput(e.target.value).
setInput(v) ==
    /\ ChatShown
    /\ v # input
    /\ input' = v
    /\ UNCHANGED <<editingVars, dashboardVars, messages, chatIsLoading, isConfigured,
                   statusCall, chatCall>>

\* The currentFileContent prop of AIChat.
currentFileContent == editorContentRef

\* The context sendMessage passes to api.chat: currentFileContent.
ChatContext(s) == currentFileContent

\* sendMessage up to the await.
sendMessage(s) ==
    LET userMessage == [role |-> "user", content |-> Trimmed(input)]
    IN  /\ ChatShown
        /\ Trimmed(input) # <<>>
        /\ ~chatIsLoading
        /\ Len(messages) < MaxMessages
        /\ messages' = Append(messages, userMessage)
        /\ input' = <<>>
        /\ chatIsLoading' = TRUE
        /\ chatCall' = Some([messages |-> Append(messages, userMessage),
                             context |-> ChatContext(s),
                             language |-> Extension(filePath[s])])
        /\ UNCHANGED <<editingVars, dashboardVars, isConfigured, statusCall>>

\* sendMessage from the await on.
ChatAnswered(resp) ==
    LET r == request(resp)
    IN  /\ chatCall # None
        /\ chatCall' = None
        /\ chatIsLoading' = FALSE
        /\ IF r.ok
           THEN /\ messages' = Append(messages,
                                      [role |-> "assistant", content |-> r.value.content])
                /\ UNCHANGED dashToast
           ELSE /\ dashToast' = "Failed to send message"
                /\ UNCHANGED messages
        /\ UNCHANGED <<editingVars, editorContentRef, currentTab, clipboard, input,
                       isConfigured, statusCall>>

\* The assistant messages that show the Insert button.
Insertable ==
    { i \in DOMAIN messages :
        messages[i].role = "assistant" /\ Len(extractCodeBlocks(messages[i].content)) > 0 }

\* DashboardPage.handleInsertCode(code).
handleInsertCode(code) ==
    /\ clipboard' = code
    /\ dashToast' = "Code copied! Use Magic Paste in the editor."
    /\ currentTab' = "editor"
    /\ UNCHANGED <<editingVars, editorContentRef, chatVars>>

\* The Insert button of message i: onInsertCode(codeBlocks[0]).
Insert(i) ==
    /\ ChatShown
    /\ i \in Insertable
    /\ handleInsertCode(extractCodeBlocks(messages[i].content)[1])

ChatNext ==
    \/ UNCHANGED besideEditing /\ \E s \in Editors, p \in Paths : handleFileSelect(s, p)
    \/ UNCHANGED besideEditing /\ \E s \in Editors, p \in Paths : \E resp \in FileAnswers(p) :
          loadFile(s, p, resp)
    \/ UNCHANGED besideEditing /\ \E s \in Editors, value \in Contents : handleEditorChange(s, value)
    \/ UNCHANGED besideChat /\ \E resp \in AiStatusResponses : AiStatusAnswered(resp)
    \/ UNCHANGED besideChat /\ \E tab \in {"editor", "ai"} : setCurrentTab(tab)
    \/ UNCHANGED besideChat /\ \E v \in ChatInputs : setInput(v)
    \/ UNCHANGED besideChat /\ \E s \in Editors : sendMessage(s)
    \/ UNCHANGED besideChat /\ \E resp \in ChatResponses : ChatAnswered(resp)
    \/ UNCHANGED besideChat /\ \E i \in DOMAIN messages : Insert(i)

ChatSpec == Init /\ [][ChatNext]_vars

\* C19: every chat request carries as context the current content of the
\* open file: when sendMessage issues the call, the call's context is the
\* content of the editor.
C19Claim ==
    [][\A s \in Editors :
          (chatCall = None /\ chatCall' # None) => chatCall'[1].context = content[s]]_vars

\* The characters of a content of the editor.
Chars(c) == IF c = "" THEN <<>> ELSE <<c>>

\* The step is a click on Insert that passes `code`.
Inserts(code) ==
    /\ dashboardVars' # dashboardVars
    /\ clipboard' = code
    /\ dashToast' = "Code copied! Use Magic Paste in the editor."

\* C20: after a click on Insert the content of the editor, if it shows a
\* file, contains the first code block of the assistant message.
C20Claim ==
    [][\A i \in Insertable :
          Inserts(extractCodeBlocks(messages[i].content)[1]) =>
              \A s \in Editors :
                  EditorShown(s) =>
                      Includes(Chars(content'[s]),
                               extractCodeBlocks(messages[i].content)[1])]_vars

(***************************************************************************)
(* Properties of the editor across file selections, pushes and backups.    *)
(***************************************************************************)
\* No getFileContent call and no handleSafePush of editor s is in flight.
Quiet(s) == loads[s] = {} /\ pc[s] = "idle"

\* C22: once no load and no push is in flight, the sha the editor holds is
\* a fingerprint of the file filePath names, and if it is the current one
\* then originalContent is the content the backend holds for that file.
C22Claim ==
    \A s \in Editors :
        (Quiet(s) /\ sha[s] # EmptySha) =>
            /\ sha[s][1] = filePath[s]
            /\ sha[s] = CurrentSha(filePath[s]) =>
                  originalContent[s] = OrEmpty(backend[filePath[s]].content)

\* C23: whenever content differs from originalContent, hasUnsavedChanges
\* is true.
C23Claim ==
    \A s \in Editors :
        content[s] # originalContent[s] => hasUnsavedChanges[s]

\* The step starts an attempt of editor s: handleSafePush issues its scan.
Starts(s) == pc'[s] = "scanning" /\ calls'[s] # calls[s]

\* C24: isSaving is true exactly while a Safe Push attempt of the editor
\* is in flight, and an attempt starts only when none is in flight.
C24Theorem ==
    /\ [](\A s \in Editors : isSaving[s] <=> pc[s] # "idle")
    /\ [][\A s \in Editors : Starts(s) => (pc[s] = "idle" /\ ~isSaving[s])]_vars

\* An attempt threw at its commit call and has ended; isSaving is false and
\* Safe Push is enabled again.
C24Witness ==
    \E s \in Editors :
        /\ AttemptEnded(s)
        /\ LastCall(s).kind = "commit"
        /\ LastCall(s).result = "error"
        /\ ~isSaving[s]
        /\ SafePushEnabled(s)

(***************************************************************************)
(* The backup across a push: one editor whose scan and syntax check pass.  *)
(***************************************************************************)
\* handleEditorChange: the user changes the content.
handleEditorChangeAfter(s, value) ==
    /\ handleEditorChange(s, value)
    /\ clearedBackup' = [clearedBackup EXCEPT ![s] = None]

\* Step 3 answered; the success branch has called storage.remove(backupKey)
\* with the backupKey of the render the handler was created in.
CommitAnsweredClearing(s) ==
    /\ CommitAnswered(s)
    /\ clearedBackup' =
         [clearedBackup EXCEPT ![s] =
            IF calls'[s][Len(calls'[s])].result = "accepted"
            THEN Some(getBackupKey(RepoFullName, closure[s].filePath))
            ELSE @]

BackupNext ==
    \/ UNCHANGED besideEditing /\ \E s \in Editors, p \in Paths : \E resp \in FileAnswers(p) :
          loadFile(s, p, resp)
    \/ UNCHANGED besideBackup /\ \E s \in Editors, value \in Contents :
          handleEditorChangeAfter(s, value)
    \/ UNCHANGED besideEditing /\ \E s \in Editors, key \in BackupKeys : debounceTimeout(s, key)
    \/ UNCHANGED besideEditing /\ \E s \in Editors : handleSafePush(s)
    \/ UNCHANGED besideEditing /\ \E s \in Editors : \E resp \in ScanAnswers : ScanAnswered(s, resp)
    \/ UNCHANGED besideEditing /\ \E s \in Editors : \E resp \in SyntaxAnswers : SyntaxAnswered(s, resp)
    \/ UNCHANGED besideBackup /\ \E s \in Editors : CommitAnsweredClearing(s)

BackupSpec == Init /\ [][BackupNext]_vars

\* C25: after a push ended Committed, and until the user changes the
\* content, localStorage holds no backup under the key the push removed.
C25Claim ==
    \A s \in Editors :
        clearedBackup[s] # None => localStorage[s][clearedBackup[s][1]] = NoItem

====
